---- MODULE Spec2Model ----
(***************************************************************************)
(* Model of homework/clean_data.py: the text normaliser _normalize, the    *)
(* label mapper _map_clean_label, the key filler _make_test_keys and the   *)
(* entry operation main, which reads a table of raw records and writes the *)
(* cleaned_text table and the key table.                                   *)
(*                                                                         *)
(* A Python str is modelled as a sequence of one-character strings, so     *)
(* that replace, re.sub, strip, upper and title are computed character by  *)
(* character as the interpreter computes them.                             *)
(***************************************************************************)
EXTENDS Integers, Sequences, FiniteSets, TLC

\* ------------------------------------------------------------------ bounds

\* Longest raw string enumerated exhaustively over Alphabet.
MaxLen == 3

\* Largest count n handed to _make_test_keys on its own.
MaxN == 19

\* Largest number of lines of an input file read by main.
MaxLines == 3

\* -------------------------------------------------------------- characters

\* string.ascii_lowercase, "abcdefghijklmnopqrstuvwxyz"
LowerLetters ==
    <<"a","b","c","d","e","f","g","h","i","j","k","l","m","n","o","p","q",
      "r","s","t","u","v","w","x","y","z">>

\* string.ascii_uppercase, "ABCDEFGHIJKLMNOPQRSTUVWXYZ"
UpperLetters ==
    <<"A","B","C","D","E","F","G","H","I","J","K","L","M","N","O","P","Q",
      "R","S","T","U","V","W","X","Y","Z">>

\* string.digits, "0123456789"
Digits ==
    <<"0","1","2","3","4","5","6","7","8","9">>

Range(f) == { f[i] : i \in DOMAIN f }

IndexOf(seq, c) == CHOOSE i \in DOMAIN seq : seq[i] = c

IsLower(c) == c \in Range(LowerLetters)
IsUpper(c) == c \in Range(UpperLetters)
IsDigit(c) == c \in Range(Digits)

\* str.isupper() or str.islower() of one character: the cased characters.
\* Only ASCII letters reach upper() and title(): the character class of
\* _normalize has removed everything else.
IsCased(c) == IsLower(c) \/ IsUpper(c)

\* What \s matches and what strip() removes, among the characters modelled.
Whitespace == {" ", "\t"}

IsSpace(c) == c \in Whitespace

\* str.upper() of one character.
UpperChar(c) == IF IsLower(c) THEN UpperLetters[IndexOf(LowerLetters, c)] ELSE c

\* str.lower() of one character.
LowerChar(c) == IF IsUpper(c) THEN LowerLetters[IndexOf(UpperLetters, c)] ELSE c

\* The complement of the character class [^A-Za-z0-9\- ].
Allowed(c) == IsLower(c) \/ IsUpper(c) \/ IsDigit(c) \/ c = "-" \/ c = " "

\* The Python str spelled by a sequence of characters (used to state results
\* against the literals of the source).
RECURSIVE Join(_)
Join(s) == IF s = <<>> THEN "" ELSE Head(s) \o Join(Tail(s))

\* ------------------------------------------------------------- _normalize

\* s.replace(".", " ")
ReplacePeriods(s) == [i \in DOMAIN s |-> IF s[i] = "." THEN " " ELSE s[i]]

\* re.sub(r"[^A-Za-z0-9\- ]+", "", s)
RemoveDisallowed(s) == SelectSeq(s, Allowed)

\* re.sub(r"\s+", " ", s): every maximal run of whitespace becomes one space.
RECURSIVE CollapseFrom(_, _)
CollapseFrom(s, i) ==
    IF i > Len(s) THEN <<>>
    ELSE IF IsSpace(s[i])
         THEN IF i > 1 /\ IsSpace(s[i - 1])
              THEN CollapseFrom(s, i + 1)
              ELSE <<" ">> \o CollapseFrom(s, i + 1)
         ELSE <<s[i]>> \o CollapseFrom(s, i + 1)

CollapseWhitespace(s) == CollapseFrom(s, 1)

\* str.lstrip()
RECURSIVE LStrip(_)
LStrip(s) == IF s # <<>> /\ IsSpace(Head(s)) THEN LStrip(Tail(s)) ELSE s

\* str.rstrip()
RECURSIVE RStrip(_)
RStrip(s) ==
    IF s # <<>> /\ IsSpace(s[Len(s)]) THEN RStrip(SubSeq(s, 1, Len(s) - 1)) ELSE s

\* str.strip()
Strip(s) == LStrip(RStrip(s))

\* str.upper()
Upper(s) == [i \in DOMAIN s |-> UpperChar(s[i])]

\* A variant of _normalize that strips before the character class is applied.
NormalizeStripFirst(s) ==
    Upper(CollapseWhitespace(RemoveDisallowed(Strip(ReplacePeriods(s)))))

\* A variant of _normalize without the whitespace-collapsing substitution.
NormalizeNoCollapse(s) ==
    Upper(Strip(RemoveDisallowed(ReplacePeriods(s))))

\* _normalize(s)
Normalize(s) ==
    Upper(Strip(CollapseWhitespace(RemoveDisallowed(ReplacePeriods(s)))))

\* ------------------------------------------------------- _map_clean_label

\* "ADHOC QUERIES"
ADHOC_QUERIES ==
    <<"A","D","H","O","C"," ","Q","U","E","R","I","E","S">>

\* "AD-HOC QUERIES"
AD_HOC_QUERIES ==
    <<"A","D","-","H","O","C"," ","Q","U","E","R","I","E","S">>

\* "AGRICULTURAL PRODUCTION"
AGRICULTURAL_PRODUCTION ==
    <<"A","G","R","I","C","U","L","T","U","R","A","L"," ","P","R","O","D",
      "U","C","T","I","O","N">>

\* "AIRLINE COMPANIES"
AIRLINE_COMPANIES ==
    <<"A","I","R","L","I","N","E"," ","C","O","M","P","A","N","I","E","S">>

\* "AIRLINES"
AIRLINES ==
    <<"A","I","R","L","I","N","E","S">>

\* "ANALYTIC APPLICATIONS"
ANALYTIC_APPLICATIONS ==
    <<"A","N","A","L","Y","T","I","C"," ","A","P","P","L","I","C","A","T",
      "I","O","N","S">>

\* "ANALYTIC MODEL"
ANALYTIC_MODEL ==
    <<"A","N","A","L","Y","T","I","C"," ","M","O","D","E","L">>

\* str.title(): a cased character is upper-cased when the character before it
\* is not cased (or there is none) and lower-cased when it is; an uncased
\* character is kept and ends the word.
RECURSIVE TitleFrom(_, _, _)
TitleFrom(s, i, previous_is_cased) ==
    IF i > Len(s) THEN <<>>
    ELSE IF IsCased(s[i])
         THEN <<IF previous_is_cased THEN LowerChar(s[i]) ELSE UpperChar(s[i])>>
              \o TitleFrom(s, i + 1, TRUE)
         ELSE <<s[i]>> \o TitleFrom(s, i + 1, FALSE)

\* A variant of the fallback whose words are delimited by spaces only: the
\* first letter of each space-separated word is upper-cased and every later
\* letter of that word lower-cased, whatever lies between them.
RECURSIVE SpaceTitleFrom(_, _, _)
SpaceTitleFrom(s, i, letter_seen) ==
    IF i > Len(s) THEN <<>>
    ELSE IF s[i] = " "
         THEN <<s[i]>> \o SpaceTitleFrom(s, i + 1, FALSE)
         ELSE IF IsCased(s[i])
              THEN <<IF letter_seen THEN LowerChar(s[i]) ELSE UpperChar(s[i])>>
                   \o SpaceTitleFrom(s, i + 1, TRUE)
              ELSE <<s[i]>> \o SpaceTitleFrom(s, i + 1, letter_seen)

SpaceTitle(s) == SpaceTitleFrom(s, 1, FALSE)

\* str.capitalize(): a variant of the fallback that starts one word only.
Capitalize(s) ==
    [i \in DOMAIN s |-> IF i = 1 THEN UpperChar(s[i]) ELSE LowerChar(s[i])]

\* norm.title()
Title(s) == TitleFrom(s, 1, FALSE)

\* A variant of _map_clean_label without the exact-match rules.
MapCleanLabelNoTable(norm) == Title(norm)

\* A variant of _map_clean_label whose first rule returns the label without
\* its hyphen.
MapCleanLabelNoHyphen(norm) ==
    IF norm \in {ADHOC_QUERIES, AD_HOC_QUERIES}
    THEN <<"A","D"," ","H","O","C"," ","Q","U","E","R","I","E","S">>
    ELSE IF norm \in {AGRICULTURAL_PRODUCTION, AIRLINE_COMPANIES, AIRLINES,
                      ANALYTIC_APPLICATIONS, ANALYTIC_MODEL}
    THEN norm
    ELSE Title(norm)

\* _map_clean_label(norm)
MapCleanLabel(norm) ==
    IF norm \in {ADHOC_QUERIES, AD_HOC_QUERIES} THEN AD_HOC_QUERIES
    ELSE IF norm = AGRICULTURAL_PRODUCTION THEN AGRICULTURAL_PRODUCTION
    ELSE IF norm = AIRLINE_COMPANIES THEN AIRLINE_COMPANIES
    ELSE IF norm = AIRLINES THEN AIRLINES
    ELSE IF norm = ANALYTIC_APPLICATIONS THEN ANALYTIC_APPLICATIONS
    ELSE IF norm = ANALYTIC_MODEL THEN ANALYTIC_MODEL
    ELSE Title(norm)

\* ----------------------------------------------------------------- inputs

\* Characters the exhaustive inputs are built from: a lower-case and an
\* upper-case letter, a digit, the hyphen, the space, the period, a
\* whitespace character other than the space, a punctuation mark and a
\* non-ASCII letter.
Alphabet == {"a", "B", "7", "-", " ", ".", "\t", "!", "é"}

\* Every string over Alphabet of length at most n.
RECURSIVE StringsUpTo(_)
StringsUpTo(n) ==
    IF n = 0 THEN {<<>>}
    ELSE LET shorter == StringsUpTo(n - 1)
         IN  shorter \cup { Append(s, c) : s \in shorter, c \in Alphabet }

\* raw record "Ad Hoc Queries"
RawAdHocQueries ==
    <<"A","d"," ","H","o","c"," ","Q","u","e","r","i","e","s">>

\* raw record "ad-hoc queries."
RawAdHyphenHocQueries ==
    <<"a","d","-","h","o","c"," ","q","u","e","r","i","e","s",".">>

\* raw record "Adhoc  Queries"
RawAdhocQueries ==
    <<"A","d","h","o","c"," "," ","Q","u","e","r","i","e","s">>

\* raw record " agricultural production"
RawAgriculturalProduction ==
    <<" ","a","g","r","i","c","u","l","t","u","r","a","l"," ","p","r","o",
      "d","u","c","t","i","o","n">>

\* raw record "Airline Companies!"
RawAirlineCompanies ==
    <<"A","i","r","l","i","n","e"," ","C","o","m","p","a","n","i","e","s",
      "!">>

\* raw record "airlines"
RawAirlines ==
    <<"a","i","r","l","i","n","e","s">>

\* raw record "Analytic.Applications"
RawAnalyticApplications ==
    <<"A","n","a","l","y","t","i","c",".","A","p","p","l","i","c","a","t",
      "i","o","n","s">>

\* raw record "ANALYTIC MODEL"
RawAnalyticModel ==
    <<"A","N","A","L","Y","T","I","C"," ","M","O","D","E","L">>

\* raw record "Something Else Entirely"
RawSomethingElseEntirely ==
    <<"S","o","m","e","t","h","i","n","g"," ","E","l","s","e"," ","E","n",
      "t","i","r","e","l","y">>

\* raw record "3d-printing x2y"
RawThreeDPrinting ==
    <<"3","d","-","p","r","i","n","t","i","n","g"," ","x","2","y">>

\* raw record "analytic models"
RawAnalyticModels ==
    <<"a","n","a","l","y","t","i","c"," ","m","o","d","e","l","s">>

\* Raw records of the kind the input table holds: one for each rule of
\* _map_clean_label and some that fall through to the fallback.
SampleRecords ==
    {RawAdHocQueries,
     RawAdHyphenHocQueries,
     RawAdhocQueries,
     RawAgriculturalProduction,
     RawAirlineCompanies,
     RawAirlines,
     RawAnalyticApplications,
     RawAnalyticModel,
     RawSomethingElseEntirely,
     RawThreeDPrinting,
     RawAnalyticModels}

\* -------------------------------------------------------- _make_test_keys

\* the filler prefix "key_filler_"
KEY_FILLER ==
    <<"k","e","y","_","f","i","l","l","e","r","_">>

\* expected[0] = "alanapatcacsiciolilynnaonplppsatiyt"
Expected0 ==
    <<"a","l","a","n","a","p","a","t","c","a","c","s","i","c","i","o","l",
      "i","l","y","n","n","a","o","n","p","l","p","p","s","a","t","i","y",
      "t">>

\* expected[2] = "alanapatcacsiciolilynansonplppssatiyt"
Expected2 ==
    <<"a","l","a","n","a","p","a","t","c","a","c","s","i","c","i","o","l",
      "i","l","y","n","a","n","s","o","n","p","l","p","p","s","s","a","t",
      "i","y","t">>

\* expected[3] = "alancsdeelicllymonaodsmtiyt"
Expected3 ==
    <<"a","l","a","n","c","s","d","e","e","l","i","c","l","l","y","m","o",
      "n","a","o","d","s","m","t","i","y","t">>

\* expected[7] = "alancadeeliclmlslymonaodstiyt"
Expected7 ==
    <<"a","l","a","n","c","a","d","e","e","l","i","c","l","m","l","s","l",
      "y","m","o","n","a","o","d","s","t","i","y","t">>

\* expected[12] = "agalctcudugriclpltodprrariroststuuculur"
Expected12 ==
    <<"a","g","a","l","c","t","c","u","d","u","g","r","i","c","l","p","l",
      "t","o","d","p","r","r","a","r","i","r","o","s","t","s","t","u","u",
      "c","u","l","u","r">>

\* expected[17] = "aiesinirlinerls"
Expected17 ==
    <<"a","i","e","s","i","n","i","r","l","i","n","e","r","l","s">>

\* The dict `expected`: index -> literal.
expected ==
    (0 :> Expected0) @@ (2 :> Expected2) @@ (3 :> Expected3) @@
    (7 :> Expected7) @@ (12 :> Expected12) @@ (17 :> Expected17)

\* expected.items() iterates in insertion order.
expectedOrder == <<0, 2, 3, 7, 12, 17>>

\* str(i) for i >= 0, in decimal.
RECURSIVE DecimalOf(_)
DecimalOf(i) ==
    IF i < 10 THEN <<Digits[i + 1]>>
    ELSE DecimalOf(i \div 10) \o <<Digits[(i % 10) + 1]>>

\* f"key_filler_{i}"
KeyFiller(i) == KEY_FILLER \o DecimalOf(i)

\* [f"key_filler_{i}" for i in range(n)]
Fill(n) == [i \in 1..n |-> KeyFiller(i - 1)]

\* A variant of the bounds guard that lets every expected index through.
InBoundsAlways(idx, n) == TRUE

\* 0 <= idx < n
InBounds(idx, n) == 0 <= idx /\ idx < n

\* keys[idx] = val succeeds exactly when idx is a position of the list (the
\* indices of `expected` are never negative); otherwise it raises IndexError.
CanAssign(ks, idx) == 0 <= idx /\ idx < Len(ks)

\* keys[idx] = val, on a list held as a sequence indexed from 1.
SetItem(ks, idx, val) == [ks EXCEPT ![idx + 1] = val]

\* The loop over expected.items(), from its j-th item on.
RECURSIVE InjectFrom(_, _, _)
InjectFrom(ks, j, n) ==
    IF j > Len(expectedOrder) THEN ks
    ELSE LET idx == expectedOrder[j]
         IN  InjectFrom(IF InBounds(idx, n) THEN SetItem(ks, idx, expected[idx])
                        ELSE ks,
                        j + 1, n)

\* _make_test_keys(n), as main calls it.
MakeTestKeys(n) == InjectFrom(Fill(n), 1, n)

\* ------------------------------------------------------------------- state

VARIABLES
    \* one application of the two pure functions to a raw string
    s,            \* the raw string
    norm,         \* _normalize(s)
    renorm,       \* _normalize(norm)
    label,        \* _map_clean_label(norm)
    norm2,        \* _normalize(label)
    label2,       \* _map_clean_label(norm2)
    fpc,          \* which of the applications have been made
    \* one call of _make_test_keys
    n,            \* its argument
    keys,         \* the list being built
    item,         \* position of the loop in expected.items(), from 1
    kpc,          \* position of the call
    \* one call of main
    input_path,
    output_path,
    fs,           \* the file system: path -> file
    files_dir,    \* whether the directory files/ exists
    raw_texts,
    cleaned,
    pos,          \* position of the loop over raw_texts, from 1
    test_keys,
    written,      \* the paths to_csv has written, in order
    err,          \* the exception main raised, or "none"
    pc            \* position of main

fvars == <<s, norm, renorm, label, norm2, label2, fpc>>
kvars == <<n, keys, item, kpc>>
mvars == <<input_path, output_path, fs, files_dir, raw_texts, cleaned, pos,
           test_keys, written, err, pc>>
vars == <<fvars, kvars, mvars>>

\* ------------------------------------------------------------ file system

InputTxt == "files/input.txt"
OutputTxt == "files/output.txt"
TestCsv == "files/test.csv"
ElsewhereCsv == "out.csv"

\* The paths a caller passes; the first three lie in the directory files/.
Paths == {InputTxt, OutputTxt, TestCsv, ElsewhereCsv}

InFilesDir(p) == p \in {InputTxt, OutputTxt, TestCsv}

\* column name "raw_text"
RAW_TEXT ==
    <<"r","a","w","_","t","e","x","t">>

\* column name "cleaned_text"
CLEANED_TEXT ==
    <<"c","l","e","a","n","e","d","_","t","e","x","t">>

\* column name "key"
KEY ==
    <<"k","e","y">>

\* A file is its lines, each a string; a path without a file holds NoFile.
File(lines) == [exists |-> TRUE, lines |-> lines]

NoFile == [exists |-> FALSE, lines |-> <<>>]

\* DataFrame({column: rows}).to_csv(path, index=False): the header line, then
\* one line per row.
Table(column, rows) == File(<<column>> \o rows)

\* A file left at a path by an earlier run.
OldFile == Table(CLEANED_TEXT, <<AIRLINES>>)

\* The raw records main cleans in the model.
MainRecords == {RawAdhocQueries, RawAirlines, RawThreeDPrinting}

\* Every sequence over S of length at most k.
RECURSIVE SeqsUpTo(_, _)
SeqsUpTo(S, k) ==
    IF k = 0 THEN {<<>>}
    ELSE LET shorter == SeqsUpTo(S, k - 1)
         IN  shorter \cup { Append(q, x) : q \in shorter, x \in S }

\* The input files of the model, of at most MaxLines lines: with the header
\* raw_text, or headerless (the empty file among them).
InputFiles ==
    { File(<<RAW_TEXT>> \o rows) : rows \in SeqsUpTo(MainRecords, MaxLines - 1) }
    \cup { File(rows) : rows \in SeqsUpTo(MainRecords, MaxLines) }

\* ------------------------------------------- the pure functions, applied

FunctionsIdle ==
    /\ s = <<>> /\ norm = <<>> /\ renorm = <<>> /\ label = <<>>
    /\ norm2 = <<>> /\ label2 = <<>> /\ fpc = "idle"

KeysIdle == n = 0 /\ keys = <<>> /\ item = 1 /\ kpc = "idle"

MainIdle ==
    /\ input_path = InputTxt /\ output_path = OutputTxt
    /\ fs = [p \in Paths |-> NoFile] /\ files_dir = FALSE
    /\ raw_texts = <<>> /\ cleaned = <<>> /\ pos = 1 /\ test_keys = <<>>
    /\ written = <<>> /\ err = "none" /\ pc = "idle"

\* Any string: every string over Alphabet up to MaxLen, and the samples.
InitFunctions ==
    /\ s \in StringsUpTo(MaxLen) \cup SampleRecords
    /\ norm = <<>> /\ renorm = <<>> /\ label = <<>>
    /\ norm2 = <<>> /\ label2 = <<>>
    /\ fpc = "raw"
    /\ KeysIdle /\ MainIdle

\* norm = _normalize(s)
ApplyNormalize ==
    /\ fpc = "raw"
    /\ norm' = Normalize(s)
    /\ fpc' = "normalized"
    /\ UNCHANGED <<s, renorm, label, norm2, label2, kvars, mvars>>

\* _normalize(norm): the normaliser applied to its own result
ApplyNormalizeAgain ==
    /\ fpc = "normalized"
    /\ renorm' = Normalize(norm)
    /\ fpc' = "renormalized"
    /\ UNCHANGED <<s, norm, label, norm2, label2, kvars, mvars>>

\* label = _map_clean_label(norm)
ApplyMapCleanLabel ==
    /\ fpc \in {"normalized", "renormalized"}
    /\ label' = MapCleanLabel(norm)
    /\ fpc' = "mapped"
    /\ UNCHANGED <<s, norm, renorm, norm2, label2, kvars, mvars>>

\* _normalize(label): the label fed back as a raw record
ApplyNormalizeToLabel ==
    /\ fpc = "mapped"
    /\ norm2' = Normalize(label)
    /\ fpc' = "label_normalized"
    /\ UNCHANGED <<s, norm, renorm, label, label2, kvars, mvars>>

\* _map_clean_label(_normalize(label))
ApplyMapCleanLabelAgain ==
    /\ fpc = "label_normalized"
    /\ label2' = MapCleanLabel(norm2)
    /\ fpc' = "remapped"
    /\ UNCHANGED <<s, norm, renorm, label, norm2, kvars, mvars>>

NextFunctions ==
    \/ ApplyNormalize
    \/ ApplyNormalizeAgain
    \/ ApplyMapCleanLabel
    \/ ApplyNormalizeToLabel
    \/ ApplyMapCleanLabelAgain

SpecFunctions == InitFunctions /\ [][NextFunctions]_vars

\* ---------------------------------------------- _make_test_keys, stepwise

InitKeys ==
    /\ n \in 0..MaxN
    /\ keys = <<>> /\ item = 1 /\ kpc = "fill"
    /\ FunctionsIdle /\ MainIdle

\* One element of the list comprehension.
KeysFill ==
    /\ kpc = "fill" /\ Len(keys) < n
    /\ keys' = Append(keys, KeyFiller(Len(keys)))
    /\ UNCHANGED <<n, item, kpc, fvars, mvars>>

\* The comprehension is exhausted; the loop over expected.items() starts.
KeysFilled ==
    /\ kpc = "fill" /\ Len(keys) >= n
    /\ kpc' = "inject" /\ item' = 1
    /\ UNCHANGED <<n, keys, fvars, mvars>>

\* One iteration of the loop over expected.items().
KeysInject ==
    /\ kpc = "inject" /\ item <= Len(expectedOrder)
    /\ LET idx == expectedOrder[item]
       IN  IF InBounds(idx, n)
           THEN IF CanAssign(keys, idx)
                THEN /\ keys' = SetItem(keys, idx, expected[idx])
                     /\ item' = item + 1
                     /\ kpc' = kpc
                ELSE /\ kpc' = "IndexError"
                     /\ UNCHANGED <<keys, item>>
           ELSE /\ item' = item + 1
                /\ UNCHANGED <<keys, kpc>>
    /\ UNCHANGED <<n, fvars, mvars>>

\* return keys
KeysReturn ==
    /\ kpc = "inject" /\ item > Len(expectedOrder)
    /\ kpc' = "return"
    /\ UNCHANGED <<n, keys, item, fvars, mvars>>

NextKeys ==
    \/ KeysFill
    \/ KeysFilled
    \/ KeysInject
    \/ KeysReturn

SpecKeys == InitKeys /\ [][NextKeys]_vars

\* -------------------------------------------------------------------- main

\* A call main(input_path, output_path) on a file system in which the file
\* at input_path, if any, is one of InputFiles, any other path may hold an
\* old file, and files/ exists whenever a file lies in it.
Init ==
    /\ input_path \in Paths
    /\ output_path \in Paths
    /\ \E f \in InputFiles \cup {NoFile}, old \in SUBSET Paths :
          fs = [p \in Paths |-> IF p = input_path THEN f
                                ELSE IF p \in old THEN OldFile ELSE NoFile]
    /\ files_dir \in BOOLEAN
    /\ (\E p \in Paths : InFilesDir(p) /\ fs[p].exists) => files_dir
    /\ raw_texts = <<>> /\ cleaned = <<>> /\ pos = 1 /\ test_keys = <<>>
    /\ written = <<>> /\ err = "none" /\ pc = "start"
    /\ FunctionsIdle /\ KeysIdle

\* to_csv(path) can create the file: its directory exists.
CanWrite(path) == InFilesDir(path) => files_dir

\* raise: main ends with the exception.
Raise(e) == err' = e /\ pc' = "raised"

\* A variant of the existence check that creates the output file first.
CheckExistsAfterCreate ==
    /\ pc = "start"
    /\ IF fs[input_path].exists
       THEN pc' = "read_csv" /\ UNCHANGED <<fs, written, err>>
       ELSE /\ fs' = [fs EXCEPT ![output_path] = File(<<>>)]
            /\ written' = Append(written, output_path)
            /\ Raise("FileNotFoundError")
    /\ UNCHANGED <<input_path, output_path, files_dir, raw_texts, cleaned, pos,
                   test_keys, fvars, kvars>>

\* if not os.path.exists(input_path): raise FileNotFoundError(input_path)
CheckExists ==
    /\ pc = "start"
    /\ IF fs[input_path].exists
       THEN pc' = "read_csv" /\ err' = err
       ELSE Raise("FileNotFoundError")
    /\ UNCHANGED <<input_path, output_path, fs, files_dir, raw_texts, cleaned,
                   pos, test_keys, written, fvars, kvars>>

\* The column raw_text of the file as main reads it: the lines after the
\* header raw_text or, when the first line is not that header, every line.
Records(file) ==
    IF file.lines[1] = RAW_TEXT THEN Tail(file.lines) ELSE file.lines

\* df = pd.read_csv(...), the headerless second read, and raw_texts; read_csv
\* raises EmptyDataError on a file without lines.
ReadCsv ==
    /\ pc = "read_csv"
    /\ IF fs[input_path].lines = <<>>
       THEN Raise("EmptyDataError") /\ UNCHANGED <<raw_texts, cleaned, pos>>
       ELSE /\ raw_texts' = Records(fs[input_path])
            /\ cleaned' = <<>>
            /\ pos' = 1
            /\ pc' = "loop"
            /\ err' = err
    /\ UNCHANGED <<input_path, output_path, fs, files_dir, test_keys, written,
                   fvars, kvars>>

\* A variant of the loop body that puts each label in front of the list.
CleanRecordInFront ==
    /\ pc = "loop" /\ pos <= Len(raw_texts)
    /\ cleaned' = <<MapCleanLabel(Normalize(raw_texts[pos]))>> \o cleaned
    /\ pos' = pos + 1
    /\ UNCHANGED <<input_path, output_path, fs, files_dir, raw_texts, test_keys,
                   written, err, pc, fvars, kvars>>

\* One iteration of `for s in raw_texts`.
CleanRecord ==
    /\ pc = "loop" /\ pos <= Len(raw_texts)
    /\ cleaned' = Append(cleaned, MapCleanLabel(Normalize(raw_texts[pos])))
    /\ pos' = pos + 1
    /\ UNCHANGED <<input_path, output_path, fs, files_dir, raw_texts, test_keys,
                   written, err, pc, fvars, kvars>>

\* out_df = pd.DataFrame({"cleaned_text": cleaned}); out_df.to_csv(output_path)
WriteOutput ==
    /\ pc = "loop" /\ pos > Len(raw_texts)
    /\ IF CanWrite(output_path)
       THEN /\ fs' = [fs EXCEPT ![output_path] = Table(CLEANED_TEXT, cleaned)]
            /\ written' = Append(written, output_path)
            /\ pc' = "make_keys"
            /\ err' = err
       ELSE Raise("OSError") /\ UNCHANGED <<fs, written>>
    /\ UNCHANGED <<input_path, output_path, files_dir, raw_texts, cleaned, pos,
                   test_keys, fvars, kvars>>

\* test_keys = _make_test_keys(len(raw_texts))
MakeKeys ==
    /\ pc = "make_keys"
    /\ test_keys' = MakeTestKeys(Len(raw_texts))
    /\ pc' = "write_keys"
    /\ UNCHANGED <<input_path, output_path, fs, files_dir, raw_texts, cleaned,
                   pos, written, err, fvars, kvars>>

\* A variant that writes the key table at the caller's output path.
WriteKeysAtOutputPath ==
    /\ pc = "write_keys"
    /\ IF CanWrite(output_path)
       THEN /\ fs' = [fs EXCEPT ![output_path] = Table(KEY, test_keys)]
            /\ written' = Append(written, output_path)
            /\ pc' = "done"
            /\ err' = err
       ELSE Raise("OSError") /\ UNCHANGED <<fs, written>>
    /\ UNCHANGED <<input_path, output_path, files_dir, raw_texts, cleaned, pos,
                   test_keys, fvars, kvars>>

\* test_df = pd.DataFrame({"key": test_keys}); test_df.to_csv("files/test.csv")
WriteKeys ==
    /\ pc = "write_keys"
    /\ IF CanWrite(TestCsv)
       THEN /\ fs' = [fs EXCEPT ![TestCsv] = Table(KEY, test_keys)]
            /\ written' = Append(written, TestCsv)
            /\ pc' = "done"
            /\ err' = err
       ELSE Raise("OSError") /\ UNCHANGED <<fs, written>>
    /\ UNCHANGED <<input_path, output_path, files_dir, raw_texts, cleaned, pos,
                   test_keys, fvars, kvars>>

Next ==
    \/ CheckExists
    \/ ReadCsv
    \/ CleanRecord
    \/ WriteOutput
    \/ MakeKeys
    \/ WriteKeys

Spec == Init /\ [][Next]_vars

\* ------------------------------------------------------------- properties

\* The characters of a normalized token.
TokenChars == Range(UpperLetters) \cup Range(Digits) \cup {"-", " "}

\* Normalized-token form.
NormalForm(t) ==
    /\ \A i \in DOMAIN t : t[i] \in TokenChars
    /\ \A i \in 1..(Len(t) - 1) : ~(t[i] = " " /\ t[i + 1] = " ")
    /\ t # <<>> => (t[1] # " " /\ t[Len(t)] # " ")

\* C1: whatever the raw string, _normalize returns a token made of upper-case
\* ASCII letters, digits, hyphens and spaces only, without two consecutive
\* spaces and without a leading or trailing space.
C1_NormalizedForm == fpc # "raw" => NormalForm(norm)

\* C1 witness: a string with a period, a letter and a non-ASCII letter has
\* been normalized to the single letter.
C1_Witness == fpc = "normalized" /\ s = <<".", "a", "é">> /\ norm = <<"A">>

\* C2: _normalize is idempotent: normalizing the token _normalize(s) again
\* returns that token.
C2_Idempotent == fpc = "renormalized" => renorm = norm

\* C2 witness: the record "ad-hoc queries." has been normalized twice.
C2_Witness ==
    /\ fpc = "renormalized" /\ s = RawAdHyphenHocQueries
    /\ Join(renorm) = "AD-HOC QUERIES"

\* The keys of the exact-match rules, as the source spells them.
TableKeys ==
    {"ADHOC QUERIES", "AD-HOC QUERIES", "AGRICULTURAL PRODUCTION",
     "AIRLINE COMPANIES", "AIRLINES", "ANALYTIC APPLICATIONS", "ANALYTIC MODEL"}

\* C3: when the normalized token is one of the table keys, _map_clean_label
\* returns AD-HOC QUERIES for the two ad-hoc spellings and the key itself for
\* every other key.
C3_TableLabels ==
    (fpc = "mapped" /\ Join(norm) \in TableKeys) =>
        Join(label) = IF Join(norm) \in {"ADHOC QUERIES", "AD-HOC QUERIES"}
                      THEN "AD-HOC QUERIES"
                      ELSE Join(norm)

\* C3 witness: "Adhoc  Queries" has reached the key ADHOC QUERIES and been
\* mapped.
C3_Witness ==
    /\ fpc = "mapped" /\ s = RawAdhocQueries
    /\ Join(norm) = "ADHOC QUERIES" /\ Join(label) = "AD-HOC QUERIES"

\* C4, as claimed: for a token that is no table key, the label is the token
\* with the first letter of each space-separated word upper-cased and every
\* other letter of that word lower-cased, a hyphen or a digit inside a word
\* not starting a new capitalized letter.
C4_SpaceSeparatedWords ==
    (fpc = "mapped" /\ Join(norm) \notin TableKeys) => label = SpaceTitle(norm)

\* C4, amended: for a token that is no table key, the label has the length of
\* the token; a letter is upper-case when it is the first character or
\* follows a character that is not a letter (a space, a hyphen or a digit)
\* and lower-case when it follows a letter; every other character is kept.
C4_LetterRuns ==
    (fpc = "mapped" /\ Join(norm) \notin TableKeys) =>
        /\ Len(label) = Len(norm)
        /\ \A i \in DOMAIN norm :
              label[i] = IF ~IsCased(norm[i]) THEN norm[i]
                         ELSE IF i = 1 \/ ~IsCased(norm[i - 1])
                              THEN UpperChar(norm[i])
                              ELSE LowerChar(norm[i])

\* C4 witness: a token with a digit-led word, a hyphen and a digit inside a
\* word has gone through the fallback.
C4_Witness ==
    /\ fpc = "mapped" /\ s = RawThreeDPrinting
    /\ Join(norm) = "3D-PRINTING X2Y" /\ Join(label) = "3D-Printing X2Y"

\* C5, as claimed: "Ad Hoc Queries" is normalized to "AD HOC QUERIES" and its
\* label is "AD-HOC QUERIES".
C5_AdHocLabelled ==
    (fpc = "mapped" /\ s = RawAdHocQueries) =>
        Join(norm) = "AD HOC QUERIES" /\ Join(label) = "AD-HOC QUERIES"

\* C5, amended: "Ad Hoc Queries" is normalized to "AD HOC QUERIES", which is
\* no table key, and its label is the fallback "Ad Hoc Queries".
C5_AdHocFallback ==
    (fpc = "mapped" /\ s = RawAdHocQueries) =>
        /\ Join(norm) = "AD HOC QUERIES"
        /\ Join(norm) \notin TableKeys
        /\ Join(label) = "Ad Hoc Queries"

\* C5 witness: the record "Ad Hoc Queries" has been normalized and mapped.
C5_Witness == fpc = "mapped" /\ Join(s) = "Ad Hoc Queries" /\ label # <<>>

\* The labels of the records main read, in input order.
ExpectedCleaned ==
    [i \in 1..Len(raw_texts) |-> MapCleanLabel(Normalize(raw_texts[i]))]

KeyString(i) ==
    CASE i = 0 -> "alanapatcacsiciolilynnaonplppsatiyt"
      [] i = 2 -> "alanapatcacsiciolilynansonplppssatiyt"
      [] i = 3 -> "alancsdeelicllymonaodsmtiyt"
      [] i = 7 -> "alancadeeliclmlslymonaodstiyt"
      [] i = 12 -> "agalctcudugriclpltodprrariroststuuculur"
      [] i = 17 -> "aiesinirlinerls"
      [] OTHER -> "key_filler_" \o ToString(i)

\* C7: for every n >= 0 _make_test_keys(n) raises nothing, never holds more
\* than n keys, and returns exactly n keys: the fixed literal at each index
\* of 0, 2, 3, 7, 12, 17 below n and key_filler_<i> at every other index i.
C7_KeysWithinBounds ==
    /\ kpc # "IndexError"
    /\ Len(keys) <= n
    /\ kpc = "return" =>
          /\ Len(keys) = n
          /\ \A i \in 0..(n - 1) : Join(keys[i + 1]) = KeyString(i)

\* C7 witness: a call with n = 13 has returned, with the literal of index 12
\* in place, a filler before it and the literal of index 17 skipped.
C7_Witness ==
    /\ kpc = "return" /\ n = 13
    /\ Join(keys[13]) = "agalctcudugriclpltodprrariroststuuculur"
    /\ Join(keys[12]) = "key_filler_11"

\* C8: when input_path does not exist main raises FileNotFoundError and
\* to_csv has written neither table; FileNotFoundError is raised with
\* nothing written.
C8_MissingInputWritesNothing ==
    /\ (pc # "start" /\ ~fs[input_path].exists) =>
          pc = "raised" /\ err = "FileNotFoundError" /\ written = <<>>
    /\ err = "FileNotFoundError" => (pc = "raised" /\ written = <<>>)

\* C8 witness: main has raised FileNotFoundError and there is no file at
\* output_path nor at files/test.csv.
C8_Witness ==
    /\ pc = "raised" /\ err = "FileNotFoundError"
    /\ ~fs[input_path].exists
    /\ ~fs[output_path].exists /\ ~fs[TestCsv].exists

\* C9: after a successful run the key table is the file at files/test.csv,
\* whatever output_path is; it was the last file written; it has the header
\* key and one row per record, as many as labels were produced; and row i is
\* the key _make_test_keys gives index i.
C9_KeyTableAtFixedPath ==
    pc = "done" =>
        LET lines == fs[TestCsv].lines
        IN  /\ fs[TestCsv].exists
            /\ written[Len(written)] = TestCsv
            /\ Len(lines) = 1 + Len(raw_texts)
            /\ Len(cleaned) = Len(raw_texts)
            /\ Join(lines[1]) = "key"
            /\ \A i \in 0..(Len(raw_texts) - 1) :
                  Join(lines[i + 2]) = KeyString(i)

\* C9 witness: a run on two records with output_path files/output.txt has
\* left two keys in files/test.csv.
C9_Witness ==
    /\ pc = "done" /\ output_path = OutputTxt /\ Len(raw_texts) = 2
    /\ Len(fs[TestCsv].lines) = 3
    /\ Join(fs[TestCsv].lines[3]) = "key_filler_1"

\* C10: the pipeline is stable on its own output: with label =
\* _map_clean_label(_normalize(s)), _map_clean_label(_normalize(label)) is
\* label again.
C10_StableOnLabels == fpc = "remapped" => label2 = label

\* C10 witness: the label AD-HOC QUERIES, produced from the key ADHOC QUERIES,
\* has gone through the pipeline again.
C10_Witness ==
    /\ fpc = "remapped" /\ Join(norm) = "ADHOC QUERIES"
    /\ Join(norm2) = "AD-HOC QUERIES" /\ Join(label2) = "AD-HOC QUERIES"

====
